---- MODULE Spec2Model ----
(***************************************************************************)
(* Model of webpack.config.js: the evaluation of the configuration module  *)
(* (environment -> exported build descriptors) and the build invocation    *)
(* that compiles every exported descriptor, firing each descriptor's       *)
(* `compile` hooks (cleanBuild) before its files are emitted.               *)
(***************************************************************************)
EXTENDS Integers, Sequences, FiniteSets, TLC

VARIABLES
  NODE_ENV,      \* process.env.NODE_ENV
  PORT,          \* process.env.PORT
  gitResult,     \* outcome of execSync('git rev-parse HEAD')
  pc,            \* position of the module evaluation: "start", "looked", "resolved"
  commitHash,    \* let commitHash (lines 40-41)
  exports,       \* module.exports (lines 208, 249)
  uncaught,      \* TRUE once an exception has escaped (the process is unwinding)
  comp,          \* per exported descriptor: "none", "idle", "compiling", "done", "failed"
  fs,            \* output directories: path -> NoDir or the set of entry names
  locked,        \* entry names whose unlinkSync throws (permissions, sub-directory)
  emittedFiles,  \* files written during this invocation: [by, path, name]
  cleanLog       \* one record per execution of the cleanBuild hook

vars == <<NODE_ENV, PORT, gitResult, pc, commitHash, exports, uncaught,
          comp, fs, locked, emittedFiles, cleanLog>>

envVars == <<NODE_ENV, PORT, gitResult>>
buildVars == <<uncaught, comp, fs, locked, emittedFiles, cleanLog>>

----------------------------------------------------------------------------
(* JavaScript values *)

Undefined == [t |-> "undefined"]
Null == [t |-> "null"]
Str(s) == [t |-> "string", v |-> s]

\* ToBoolean of undefined / null / a string
Truthy(x) == x.t = "string" /\ x.v # ""

\* JSON.stringify: undefined stays undefined, null becomes the text null,
\* a string becomes a quoted string literal
JSONstringify(x) ==
  CASE x.t = "undefined" -> Undefined
    [] x.t = "null"      -> [t |-> "json", lit |-> "null"]
    [] x.t = "string"    -> [t |-> "json", lit |-> "string", quoted |-> x.v]

----------------------------------------------------------------------------
(* Bounds and input sets *)

MaxStdoutLen == 3

Chars == {"a", " ", "\n"}

IsSpace(c) == c \in {" ", "\n"}

SeqsUpTo(S, n) == UNION {[1..k -> S] : k \in 0..n}

Stdouts == SeqsUpTo(Chars, MaxStdoutLen)

GitFailure == [ok |-> FALSE]
GitOk(s) == [ok |-> TRUE, stdout |-> s]

GitResults == {GitFailure} \cup {GitOk(s) : s \in Stdouts}

NodeEnvs == {Undefined, Str("development"), Str("production"), Str("test")}

Ports == {Undefined, Str(""), Str("3000")}

----------------------------------------------------------------------------
(* Revision lookup, lines 39-41 *)

RECURSIVE TrimStart(_)
TrimStart(s) ==
  IF s # <<>> /\ IsSpace(Head(s)) THEN TrimStart(Tail(s)) ELSE s

RECURSIVE TrimEnd(_)
TrimEnd(s) ==
  IF s # <<>> /\ IsSpace(s[Len(s)]) THEN TrimEnd(SubSeq(s, 1, Len(s) - 1)) ELSE s

\* String.prototype.trim
trim(s) == TrimEnd(TrimStart(s))

\* variant: a failed lookup leaves the empty string instead of null
CommitHashOf_EmptyOnFailure(r) ==
  IF r.ok THEN Str(trim(r.stdout)) ELSE Str(<<>>)

\* let commitHash = null; try { commitHash = execSync(...).toString().trim() } catch (e) {}
CommitHashOf(r) ==
  IF r.ok THEN Str(trim(r.stdout)) ELSE Null

----------------------------------------------------------------------------
(* Descriptor construction, lines 43-250 *)

DefaultPort == 6969

\* variant: development unless NODE_ENV is 'production'
isDev_NotProduction == NODE_ENV # Str("production")

\* const isDev = process.env.NODE_ENV === 'development'
isDev == NODE_ENV = Str("development")

DistPath == <<"dist">>
HttpDistPath == <<"http", "dist">>
ManifestName == "manifest.json"

\* variant: ?? in place of ||, so an empty PORT is used as it is
ProxyTarget_Nullish ==
  "http://localhost:" \o (IF PORT.t = "string" THEN PORT.v ELSE ToString(DefaultPort))

\* `http://localhost:${process.env.PORT || 6969}`
ProxyTarget ==
  "http://localhost:" \o (IF Truthy(PORT) THEN PORT.v ELSE ToString(DefaultPort))

ManifestPlugin ==
  [name |-> "ManifestPlugin", writeToFileEmit |-> TRUE,
   dir |-> HttpDistPath, fileName |-> ManifestName]

MiniCSSExtractPlugin ==
  [name |-> "MiniCSSExtractPlugin",
   filename |-> IF isDev THEN <<"[name]", ".css">> ELSE <<"[contenthash]", ".css">>,
   chunkFilename |-> IF isDev THEN <<"[name]", ".css">> ELSE <<"[contenthash]", ".css">>]

\* new DefinePlugin({ WEBPACK: { GIT_REVISION: ... }, 'process.env.NODE_ENV': ... })
\* for the revision identifier `hash`
DefinePlugin(hash) ==
  [name |-> "DefinePlugin",
   GIT_REVISION |-> JSONstringify(hash),
   NODE_ENV |-> JSONstringify(NODE_ENV)]

FriendlyErrorsWebpackPlugin == [name |-> "FriendlyErrorsWebpackPlugin"]
PreactRefreshWebpackPlugin == [name |-> "PreactRefreshWebpackPlugin"]
LimitChunkCountPlugin == [name |-> "LimitChunkCountPlugin", maxChunks |-> 1]

\* the inline plugin of lines 210-221: taps the compiler's `compile` hook
cleanBuildPlugin == [name |-> "cleanBuild", hook |-> "compile"]

\* variant: the browser bundle keeps its development names in every mode
BaseOutput_AlwaysNamed ==
  [filename |-> <<"[name]", ".js">>,
   chunkFilename |-> <<"[name]", ".chk.js">>,
   path |-> DistPath,
   publicPath |-> "/dist/"]

BaseOutput ==
  [filename |-> IF isDev THEN <<"[name]", ".js">> ELSE <<"[contenthash]", ".js">>,
   chunkFilename |-> IF isDev THEN <<"[name]", ".chk.js">> ELSE <<"[contenthash]", ".js">>,
   path |-> DistPath,
   publicPath |-> "/dist/"]

DevServer ==
  [quiet |-> TRUE, historyApiFallback |-> TRUE,
   proxy |-> [context |-> "/", target |-> ProxyTarget]]

\* the object literal of lines 46-204, before either branch pushes plugins
baseConfigLiteral(hash) ==
  [mode |-> IF isDev THEN "development" ELSE "production",
   entry |-> <<"src", "main.jsx">>,
   output |-> BaseOutput,
   plugins |-> <<ManifestPlugin, MiniCSSExtractPlugin, DefinePlugin(hash)>>,
   optimization |-> [minimize |-> ~isDev, splitChunks |-> {"styles"}],
   devServer |-> DevServer]

\* baseConfig after baseConfig.plugins.push(...) of line 207 or line 210
baseConfig(hash) ==
  [baseConfigLiteral(hash) EXCEPT !.plugins =
     IF isDev
       THEN @ \o <<FriendlyErrorsWebpackPlugin, PreactRefreshWebpackPlugin>>
       ELSE @ \o <<cleanBuildPlugin>>]

\* variant: the server bundle is written into the browser bundle's directory
NodeOutput_SamePath ==
  [filename |-> <<"App", ".js">>,
   chunkFilename |-> <<"[name]", ".chk.js">>,
   libraryTarget |-> "commonjs2",
   path |-> DistPath,
   publicPath |-> "/dist/"]

NodeOutput ==
  [filename |-> <<"App", ".js">>,
   chunkFilename |-> <<"[name]", ".chk.js">>,
   libraryTarget |-> "commonjs2",
   path |-> HttpDistPath,
   publicPath |-> "/dist/"]

\* variant: the server plugin list is sliced from the list as it was before
\* the cleanBuild plugin was pushed
nodeCfg_SliceBeforePush(hash) ==
  [mode |-> baseConfig(hash).mode,
   entry |-> <<"src", "components", "App.jsx">>,
   output |-> NodeOutput,
   plugins |-> Tail(baseConfigLiteral(hash).plugins) \o <<LimitChunkCountPlugin>>,
   optimization |-> [baseConfig(hash).optimization EXCEPT !.minimize = FALSE],
   devServer |-> baseConfig(hash).devServer,
   target |-> "node",
   externals |-> {"webpack-node-externals"},
   node |-> [__dirname |-> FALSE, __filename |-> FALSE]]

\* { ...baseConfig, entry, output, plugins, optimization, target, externals, node }
nodeCfg(hash) ==
  [mode |-> baseConfig(hash).mode,
   entry |-> <<"src", "components", "App.jsx">>,
   output |-> NodeOutput,
   plugins |-> Tail(baseConfig(hash).plugins) \o <<LimitChunkCountPlugin>>,
   optimization |-> [baseConfig(hash).optimization EXCEPT !.minimize = FALSE],
   devServer |-> baseConfig(hash).devServer,
   target |-> "node",
   externals |-> {"webpack-node-externals"},
   node |-> [__dirname |-> FALSE, __filename |-> FALSE]]

\* module.exports = baseConfig   |   module.exports = [ baseConfig, nodeCfg ]
ModuleExports(hash) ==
  IF isDev
    THEN [kind |-> "object", configs |-> <<baseConfig(hash)>>]
    ELSE [kind |-> "array", configs |-> <<baseConfig(hash), nodeCfg(hash)>>]

NoExports == [kind |-> "none", configs |-> <<>>]

----------------------------------------------------------------------------
(* The file system and the cleanBuild hook, lines 210-221 *)

NoDir == [exists |-> FALSE]
Dir(names) == [exists |-> TRUE, names |-> names]

Paths == {DistPath, HttpDistPath}

\* entries a previous build may have left in an output directory
OldEntries == {ManifestName, "old.js", "old.css"}

\* existsSync(path)
existsSync(files, path) == files[path].exists

Perms(S) == {q \in [1..Cardinality(S) -> S] : \A a \in S : \E i \in DOMAIN q : q[i] = a}

\* readdirSync(path): the entries of the directory, in an order the platform chooses
ReaddirOrders(files, path) == Perms(files[path].names)

\* variant: the loop is left (break) at manifest.json instead of skipping it
RECURSIVE CleanLoop_StopsAtManifest(_, _, _, _)
CleanLoop_StopsAtManifest(order, i, names, lockedNames) ==
  IF i > Len(order) \/ order[i] = ManifestName
    THEN [names |-> names, threw |-> FALSE, at |-> 0]
    ELSE IF order[i] \in lockedNames
           THEN [names |-> names, threw |-> TRUE, at |-> i]
           ELSE CleanLoop_StopsAtManifest(order, i + 1, names \ {order[i]}, lockedNames)

\* variant: unlinkSync is wrapped in try/catch and the loop goes on
RECURSIVE CleanLoop_SwallowErrors(_, _, _, _)
CleanLoop_SwallowErrors(order, i, names, lockedNames) ==
  IF i > Len(order)
    THEN [names |-> names, threw |-> FALSE, at |-> 0]
    ELSE IF order[i] # ManifestName /\ order[i] \notin lockedNames
           THEN CleanLoop_SwallowErrors(order, i + 1, names \ {order[i]}, lockedNames)
           ELSE CleanLoop_SwallowErrors(order, i + 1, names, lockedNames)

\* variant: every entry is unlinked, manifest.json included
RECURSIVE CleanLoop_NoManifestCheck(_, _, _, _)
CleanLoop_NoManifestCheck(order, i, names, lockedNames) ==
  IF i > Len(order)
    THEN [names |-> names, threw |-> FALSE, at |-> 0]
    ELSE IF order[i] \in lockedNames
           THEN [names |-> names, threw |-> TRUE, at |-> i]
           ELSE CleanLoop_NoManifestCheck(order, i + 1, names \ {order[i]}, lockedNames)

\* the for-loop of lines 214-218 from position i of `order`, over the directory
\* content `names`; unlinkSync throws on a locked entry and the loop is left
RECURSIVE CleanLoop(_, _, _, _)
CleanLoop(order, i, names, lockedNames) ==
  IF i > Len(order)
    THEN [names |-> names, threw |-> FALSE, at |-> 0]
    ELSE IF order[i] # ManifestName
      THEN IF order[i] \in lockedNames
             THEN [names |-> names, threw |-> TRUE, at |-> i]
             ELSE CleanLoop(order, i + 1, names \ {order[i]}, lockedNames)
      ELSE CleanLoop(order, i + 1, names, lockedNames)

\* the body of the tapped callback for compiler.options.output.path = path
cleanBuild(files, path, order, lockedNames) ==
  IF existsSync(files, path)
    THEN LET r == CleanLoop(order, 1, files[path].names, lockedNames)
         IN  [files |-> [files EXCEPT ![path] = Dir(r.names)],
              threw |-> r.threw, at |-> r.at]
    ELSE [files |-> files, threw |-> FALSE, at |-> 0]

----------------------------------------------------------------------------
(* The build invocation: every exported descriptor is compiled once *)

HasPlugin(cfg, n) == \E k \in DOMAIN cfg.plugins : cfg.plugins[k].name = n
PluginOf(cfg, n) == cfg.plugins[CHOOSE k \in DOMAIN cfg.plugins : cfg.plugins[k].name = n]

\* a filename pattern with its placeholders substituted
RECURSIVE Instantiate(_)
Instantiate(pattern) ==
  IF pattern = <<>> THEN ""
  ELSE (CASE Head(pattern) = "[name]"        -> "main"
          [] Head(pattern) = "[contenthash]" -> "c0ffee"
          [] OTHER                           -> Head(pattern))
       \o Instantiate(Tail(pattern))

\* the files a compilation of cfg writes: into output.path the script bundle and
\* the extracted style bundle, and the manifest at the ManifestPlugin's fileName
OutputFiles(cfg) ==
  {[path |-> cfg.output.path, name |-> Instantiate(cfg.output.filename)]}
  \cup (IF HasPlugin(cfg, "MiniCSSExtractPlugin")
          THEN {[path |-> cfg.output.path,
                 name |-> Instantiate(PluginOf(cfg, "MiniCSSExtractPlugin").filename)]}
          ELSE {})
  \cup (IF HasPlugin(cfg, "ManifestPlugin")
          THEN {[path |-> PluginOf(cfg, "ManifestPlugin").dir,
                 name |-> PluginOf(cfg, "ManifestPlugin").fileName]}
          ELSE {})

WriteFiles(files, out) ==
  [p \in Paths |->
     LET new == {f.name : f \in {g \in out : g.path = p}}
     IN  IF new = {} THEN files[p]
         ELSE Dir((IF files[p].exists THEN files[p].names ELSE {}) \cup new)]

----------------------------------------------------------------------------
(* Actions *)

\* line 41: the lookup either assigns the trimmed stdout or throws into the
\* empty catch block; no exception leaves the statement
LookupRevision ==
  /\ pc = "start"
  /\ commitHash' = CommitHashOf(gitResult)
  /\ pc' = "looked"
  /\ UNCHANGED <<envVars, exports, buildVars>>

\* lines 43-250: the descriptors are built and exported; the bundler creates
\* one compiler per exported descriptor
Resolve ==
  /\ pc = "looked"
  /\ exports' = ModuleExports(commitHash)
  /\ pc' = "resolved"
  /\ comp' = [i \in 1..2 |-> IF i <= Len(exports'.configs) THEN "idle" ELSE "none"]
  /\ UNCHANGED <<envVars, commitHash, uncaught, fs, locked, emittedFiles, cleanLog>>

\* compiler i starts compiling: its `compile` hook calls the cleanBuild tap, if
\* the descriptor's plugin list holds one. The tap is synchronous, so it runs
\* to its end (or to the throw of unlinkSync) without interleaving.
Compile(i) ==
  /\ pc = "resolved"
  /\ ~uncaught
  /\ comp[i] = "idle"
  /\ LET cfg == exports.configs[i]
         path == cfg.output.path
     IN  IF HasPlugin(cfg, "cleanBuild")
           THEN \E order \in (IF existsSync(fs, path)
                                THEN ReaddirOrders(fs, path) ELSE {<<>>}) :
                  LET r == cleanBuild(fs, path, order, locked)
                  IN  /\ fs' = r.files
                      /\ uncaught' = r.threw
                      /\ comp' = [comp EXCEPT ![i] =
                                    IF r.threw THEN "failed" ELSE "compiling"]
                      /\ cleanLog' = Append(cleanLog,
                           [by |-> i, path |-> path,
                            existed |-> existsSync(fs, path),
                            before |-> IF existsSync(fs, path)
                                         THEN fs[path].names ELSE {},
                            order |-> order,
                            after |-> r.files[path],
                            threw |-> r.threw, at |-> r.at,
                            emittedBefore |-> emittedFiles])
           ELSE /\ comp' = [comp EXCEPT ![i] = "compiling"]
                /\ UNCHANGED <<fs, uncaught, cleanLog>>
  /\ UNCHANGED <<envVars, pc, commitHash, exports, locked, emittedFiles>>

\* compiler i emits its output files
Emit(i) ==
  /\ pc = "resolved"
  /\ ~uncaught
  /\ comp[i] = "compiling"
  /\ LET out == OutputFiles(exports.configs[i])
     IN  /\ fs' = WriteFiles(fs, out)
         /\ emittedFiles' = emittedFiles \cup
              {[by |-> i, path |-> f.path, name |-> f.name] : f \in out}
  /\ comp' = [comp EXCEPT ![i] = "done"]
  /\ UNCHANGED <<envVars, pc, commitHash, exports, uncaught, locked, cleanLog>>

----------------------------------------------------------------------------
(* Specifications *)

InitProgram ==
  /\ pc = "start"
  /\ commitHash = Null
  /\ exports = NoExports
  /\ uncaught = FALSE
  /\ comp = [i \in 1..2 |-> "none"]
  /\ emittedFiles = {}
  /\ cleanLog = <<>>

\* the build: every environment mode, every content of the two output directories
Init ==
  /\ NODE_ENV \in NodeEnvs
  /\ PORT \in {Undefined, Str("3000")}
  /\ gitResult \in {GitFailure, GitOk(<<"a", "\n">>)}
  /\ fs \in [Paths -> {NoDir} \cup {Dir(S) : S \in SUBSET OldEntries}]
  /\ locked \in SUBSET (OldEntries \ {ManifestName})
  /\ InitProgram

Next ==
  \/ LookupRevision
  \/ Resolve
  \/ \E i \in 1..2 : Compile(i)
  \/ \E i \in 1..2 : Emit(i)

Spec == Init /\ [][Next]_vars

\* the evaluation of the configuration module alone, over every environment
InitResolve ==
  /\ NODE_ENV \in NodeEnvs
  /\ PORT \in Ports
  /\ gitResult \in GitResults
  /\ fs = [p \in Paths |-> NoDir]
  /\ locked = {}
  /\ InitProgram

NextResolve ==
  \/ LookupRevision
  \/ Resolve

SpecResolve == InitResolve /\ [][NextResolve]_vars

----------------------------------------------------------------------------
(* Properties of the resolution *)

Configs == {exports.configs[k] : k \in DOMAIN exports.configs}

\* a browser descriptor has no target; the server descriptor targets node
IsServerDescriptor(cfg) == "target" \in DOMAIN cfg /\ cfg.target = "node"
IsBrowserDescriptor(cfg) == "target" \notin DOMAIN cfg

Development == Str("development")

\* C1: for every NODE_ENV, exactly one browser descriptor is exported, and a
\* server descriptor is exported iff NODE_ENV is not "development":
\* Development exports the browser descriptor alone (a single object),
\* Production exports the pair [browser descriptor, server descriptor].
C1_ExportsByMode ==
  pc = "resolved" =>
    /\ Cardinality({k \in DOMAIN exports.configs :
                      IsBrowserDescriptor(exports.configs[k])}) = 1
    /\ Cardinality({k \in DOMAIN exports.configs :
                      IsServerDescriptor(exports.configs[k])})
         = (IF NODE_ENV # Development THEN 1 ELSE 0)
    /\ NODE_ENV = Development =>
         /\ exports.kind = "object"
         /\ Len(exports.configs) = 1
         /\ exports.configs[1].mode = "development"
    /\ NODE_ENV # Development =>
         /\ exports.kind = "array"
         /\ Len(exports.configs) = 2
         /\ IsBrowserDescriptor(exports.configs[1])
         /\ IsServerDescriptor(exports.configs[2])
         /\ exports.configs[1].mode = "production"
         /\ exports.configs[2].mode = "production"

C1_Witness ==
  /\ pc = "resolved"
  /\ NODE_ENV = Undefined
  /\ exports.kind = "array"
  /\ Len(exports.configs) = 2

\* t is s without its leading and trailing whitespace
IsTrimOf(t, s) ==
  \E i, j \in 0..Len(s) :
    /\ i + j <= Len(s)
    /\ t = SubSeq(s, i + 1, Len(s) - j)
    /\ \A k \in 1..i : IsSpace(s[k])
    /\ \A k \in (Len(s) - j + 1)..Len(s) : IsSpace(s[k])
    /\ t # <<>> => ~IsSpace(t[1]) /\ ~IsSpace(t[Len(t)])

\* the exported descriptors with the injected GIT_REVISION constant blanked
WithoutRevision(e) ==
  [kind |-> e.kind,
   configs |-> [k \in DOMAIN e.configs |->
     LET ps == e.configs[k].plugins
     IN  [e.configs[k] EXCEPT !.plugins =
            [q \in DOMAIN ps |->
               IF ps[q].name = "DefinePlugin"
                 THEN [ps[q] EXCEPT !.GIT_REVISION = Undefined]
                 ELSE ps[q]]]]]

\* C6: the revision lookup never aborts the resolution: after a failed lookup
\* the revision identifier is null, after a successful one it is the stdout
\* trimmed of surrounding whitespace; resolution goes on in both cases, and
\* the exported descriptors are those of a successful lookup except for the
\* injected GIT_REVISION constant.
C6_RevisionLookup ==
  /\ pc # "start" =>
       /\ ~uncaught
       /\ ~gitResult.ok => commitHash = Null
       /\ gitResult.ok =>
            /\ commitHash.t = "string"
            /\ IsTrimOf(commitHash.v, gitResult.stdout)
  /\ pc = "looked" => ENABLED Resolve
  /\ pc = "resolved" =>
       /\ exports.kind # "none"
       /\ WithoutRevision(exports) = WithoutRevision(ModuleExports(Str(<<"a">>)))
       /\ \A cfg \in Configs :
            PluginOf(cfg, "DefinePlugin").GIT_REVISION = JSONstringify(commitHash)

C6_Witness ==
  /\ pc = "resolved"
  /\ ~gitResult.ok
  /\ commitHash = Null
  /\ Len(exports.configs) >= 1
  /\ PluginOf(exports.configs[1], "DefinePlugin").GIT_REVISION
       = [t |-> "json", lit |-> "null"]

HasToken(pattern, tok) == \E k \in DOMAIN pattern : pattern[k] = tok

NameBased(pattern) ==
  HasToken(pattern, "[name]") /\ ~HasToken(pattern, "[contenthash]")
HashBased(pattern) == HasToken(pattern, "[contenthash]")

ScriptPatterns(cfg) == {cfg.output.filename, cfg.output.chunkFilename}
StylePatterns(cfg) ==
  {PluginOf(cfg, "MiniCSSExtractPlugin").filename,
   PluginOf(cfg, "MiniCSSExtractPlugin").chunkFilename}

\* C7 as stated: in every exported descriptor the script and style filename
\* patterns are name-based without content hash in Development and
\* content-hash-based in Production.
C7_Original ==
  pc = "resolved" =>
    \A cfg \in Configs :
      \A pat \in ScriptPatterns(cfg) \cup StylePatterns(cfg) :
        IF NODE_ENV = Development THEN NameBased(pat) ELSE HashBased(pat)

\* C7 (amended): the browser descriptor's script patterns and every descriptor's
\* style patterns are name-based without content hash in Development and
\* content-hash-based in Production; the Production server descriptor's script
\* patterns are the fixed App.js and the name-based [name].chk.js, without
\* content hash.
C7_FilenamePatterns ==
  pc = "resolved" =>
    /\ \A cfg \in Configs :
         /\ HasPlugin(cfg, "MiniCSSExtractPlugin")
         /\ \A pat \in StylePatterns(cfg) :
              IF NODE_ENV = Development THEN NameBased(pat) ELSE HashBased(pat)
         /\ IsBrowserDescriptor(cfg) =>
              \A pat \in ScriptPatterns(cfg) :
                IF NODE_ENV = Development THEN NameBased(pat) ELSE HashBased(pat)
         /\ IsServerDescriptor(cfg) =>
              /\ cfg.output.filename = <<"App", ".js">>
              /\ cfg.output.chunkFilename = <<"[name]", ".chk.js">>
              /\ \A pat \in ScriptPatterns(cfg) : ~HashBased(pat)

C7_Witness ==
  /\ pc = "resolved"
  /\ NODE_ENV = Str("production")
  /\ Len(exports.configs) = 2
  /\ HashBased(exports.configs[1].output.filename)
  /\ ~HashBased(exports.configs[2].output.filename)
  /\ HashBased(PluginOf(exports.configs[2], "MiniCSSExtractPlugin").filename)

HasProxy(cfg) == "devServer" \in DOMAIN cfg /\ "proxy" \in DOMAIN cfg.devServer

\* C8 as stated: a descriptor carries a dev-server proxy target only in
\* Development, and the target is http://localhost:<PORT> with PORT when it is
\* set and 6969 otherwise.
C8_Original ==
  pc = "resolved" =>
    \A cfg \in Configs :
      HasProxy(cfg) =>
        /\ NODE_ENV = Development
        /\ cfg.devServer.proxy.target =
             (IF PORT.t = "string" THEN "http://localhost:" \o PORT.v
                                   ELSE "http://localhost:6969")

\* C8 (amended): every exported descriptor, in Development and in Production
\* (browser and server), carries the dev-server proxy target
\* http://localhost:<PORT>, with PORT when it is set to a non-empty string and
\* the default 6969 when it is unset or empty.
C8_ProxyTarget ==
  pc = "resolved" =>
    \A cfg \in Configs :
      /\ HasProxy(cfg)
      /\ cfg.devServer.proxy.target =
           (IF PORT = Undefined \/ PORT = Str("")
              THEN "http://localhost:6969"
              ELSE "http://localhost:" \o PORT.v)

C8_Witness ==
  /\ pc = "resolved"
  /\ NODE_ENV = Str("production")
  /\ PORT = Str("")
  /\ Len(exports.configs) = 2
  /\ HasProxy(exports.configs[2])
  /\ exports.configs[2].devServer.proxy.target = "http://localhost:6969"

\* the value application code reads from a constant DefinePlugin injected
DefinedValue(code) ==
  CASE code.t = "undefined"                     -> Undefined
    [] code.t = "json" /\ code.lit = "null"     -> Null
    [] code.t = "json" /\ code.lit = "string"   -> Str(code.quoted)

\* C9: for every NODE_ENV the injected process.env.NODE_ENV constant is the
\* environment string of the resolved mode ("development" or "production"),
\* and the injected GIT_REVISION constant is the resolved revision identifier.
C9_InjectedConstants ==
  pc = "resolved" =>
    \A cfg \in Configs :
      /\ DefinedValue(PluginOf(cfg, "DefinePlugin").NODE_ENV) = Str(cfg.mode)
      /\ DefinedValue(PluginOf(cfg, "DefinePlugin").GIT_REVISION).t = commitHash.t
      /\ commitHash.t = "string" =>
           DefinedValue(PluginOf(cfg, "DefinePlugin").GIT_REVISION).v = commitHash.v

----------------------------------------------------------------------------
(* Properties of the build invocation *)

Started(i) == comp[i] \in {"compiling", "done", "failed"}
AllCompiled == \A i \in DOMAIN exports.configs : comp[i] \in {"compiling", "done"}
CleanupsBy(i) == {k \in DOMAIN cleanLog : cleanLog[k].by = i}
LogEntries == {cleanLog[k] : k \in DOMAIN cleanLog}

\* the names a cleanup execution removed from the directory it cleaned
Deleted(e) == e.before \ (IF e.after.exists THEN e.after.names ELSE {})

\* the names of the files of this invocation already in the cleaned directory
EmittedInto(e) == {f.name : f \in {g \in e.emittedBefore : g.path = e.path}}

\* C2 as stated: no cleanup executes in Development, and in a Production
\* invocation that has compiled every exported descriptor the cleanup hook has
\* fired exactly one time in total.
C2_Original ==
  pc = "resolved" =>
    /\ NODE_ENV = Development => Len(cleanLog) = 0
    /\ (NODE_ENV # Development /\ AllCompiled) => Len(cleanLog) = 1

\* C2 (amended): no cleanup executes in Development; in Production the cleanup
\* hook fires once for each exported descriptor that is compiled, for the
\* browser descriptor on dist/ and for the server descriptor on http/dist/:
\* two times in total once both are compiled.
C2_CleanupPerDescriptor ==
  pc = "resolved" =>
    /\ NODE_ENV = Development => Len(cleanLog) = 0
    /\ NODE_ENV # Development =>
         /\ \A i \in 1..2 :
              Cardinality(CleanupsBy(i)) = (IF Started(i) THEN 1 ELSE 0)
         /\ \A e \in LogEntries :
              e.path = (IF e.by = 1 THEN DistPath ELSE HttpDistPath)
         /\ AllCompiled => Len(cleanLog) = 2

C2_Witness ==
  /\ pc = "resolved"
  /\ NODE_ENV # Development
  /\ \A i \in 1..2 : comp[i] = "done"
  /\ Len(cleanLog) = 2
  /\ {cleanLog[1].path, cleanLog[2].path} = Paths

\* C3 as stated: whenever a cleanup runs, no file emitted in this invocation
\* exists yet.
C3_Original ==
  \A e \in LogEntries : e.emittedBefore = {}

\* C3 (amended): each compilation's cleanup runs before that compilation
\* writes any output file, and when a cleanup runs the directory it cleans
\* holds no file emitted in this invocation other than manifest.json (written
\* into http/dist/ by the browser compilation); the other compilation may
\* already have emitted into the other directory.
C3_CleanupBeforeOwnEmit ==
  \A e \in LogEntries :
    /\ \A f \in e.emittedBefore : f.by # e.by
    /\ EmittedInto(e) \subseteq {ManifestName}

C3_Witness ==
  \E e \in LogEntries :
    /\ e.by = 2
    /\ e.path = HttpDistPath
    /\ ManifestName \in EmittedInto(e)
    /\ \E f \in e.emittedBefore : f.by = 1 /\ f.path = DistPath

\* a further cleanup pass over the directory a pass has left
SecondPass(e, order) ==
  cleanBuild([p \in Paths |-> e.after], e.path, order, locked)

\* C4: a cleanup that completes without error leaves exactly manifest.json if
\* it was present and no other entry, creates nothing, and leaves a missing
\* directory missing; further passes change nothing, so a manifest written to
\* http/dist/manifest.json stays present.
C4_CleanupResult ==
  /\ \A e \in LogEntries :
       ~e.threw =>
         /\ e.after = (IF e.existed THEN Dir(e.before \cap {ManifestName}) ELSE NoDir)
         /\ \A order \in (IF e.existed THEN Perms(e.after.names) ELSE {<<>>}) :
              /\ ~SecondPass(e, order).threw
              /\ SecondPass(e, order).files[e.path] = e.after
  /\ \A f \in emittedFiles :
       (f.path = HttpDistPath /\ f.name = ManifestName) =>
         /\ fs[HttpDistPath].exists
         /\ ManifestName \in fs[HttpDistPath].names

C4_Witness ==
  \E e \in LogEntries :
    /\ ~e.threw
    /\ e.before = OldEntries
    /\ e.after = Dir({ManifestName})
    /\ e.path = HttpDistPath
    /\ [by |-> 1, path |-> HttpDistPath, name |-> ManifestName] \in e.emittedBefore

\* the first position of `order` holding a locked entry other than manifest.json
FirstLocked(order) ==
  CHOOSE i \in DOMAIN order :
    /\ order[i] # ManifestName /\ order[i] \in locked
    /\ \A k \in 1..(i - 1) : ~(order[k] # ManifestName /\ order[k] \in locked)

\* C5: if unlinking a non-manifest entry fails during a cleanup, the error
\* leaves the hook uncaught: the entries after the failing one are not
\* processed, the entries deleted before it stay deleted, the build is aborted
\* and nothing is written afterwards.
C5_DeletionFailure ==
  \A k \in DOMAIN cleanLog :
    LET e == cleanLog[k]
    IN  (\E n \in e.before \ {ManifestName} : n \in locked) =>
          /\ e.threw
          /\ e.at = FirstLocked(e.order)
          /\ e.after =
               Dir(e.before \ {e.order[j] : j \in {m \in 1..(e.at - 1) :
                                                     e.order[m] # ManifestName}})
          /\ \A j \in e.at..Len(e.order) : e.order[j] \in e.after.names
          /\ uncaught
          /\ comp[e.by] = "failed"
          /\ k = Len(cleanLog)
          /\ emittedFiles = e.emittedBefore
          /\ fs[e.path] = e.after
          /\ \A i \in 1..2 : ~ENABLED Compile(i) /\ ~ENABLED Emit(i)

C5_Witness ==
  \E e \in LogEntries :
    /\ e.threw
    /\ e.at > 1
    /\ Deleted(e) # {}
    /\ \E j \in (e.at + 1)..Len(e.order) : e.order[j] \notin locked
    /\ e.emittedBefore # {}

\* C10: in a Production invocation no cleanup deletes a file emitted earlier
\* in the same invocation: the browser cleanup touches only dist/, the server
\* cleanup only http/dist/ and never manifest.json; the browser compilation
\* writes only into dist/ and http/dist/manifest.json, the server compilation
\* only into http/dist/ and never manifest.json; every emitted file is still
\* on disk.
C10_NoEmittedFileDeleted ==
  /\ \A e \in LogEntries :
       /\ Deleted(e) \cap EmittedInto(e) = {}
       /\ ManifestName \notin Deleted(e)
       /\ e.path = (IF e.by = 1 THEN DistPath ELSE HttpDistPath)
  /\ \A f \in emittedFiles :
       /\ f.by = 1 => (f.path = DistPath \/
                        (f.path = HttpDistPath /\ f.name = ManifestName))
       /\ f.by = 2 => (f.path = HttpDistPath /\ f.name # ManifestName)
       /\ fs[f.path].exists /\ f.name \in fs[f.path].names

C10_Witness ==
  /\ NODE_ENV # Development
  /\ \A i \in 1..2 : comp[i] = "done"
  /\ Len(cleanLog) = 2
  /\ cleanLog[2].by = 2
  /\ ManifestName \in EmittedInto(cleanLog[2])
  /\ Deleted(cleanLog[2]) # {}
  /\ \E f \in emittedFiles : f.by = 2

====
